---- MODULE Spec2Model ----
(***************************************************************************)
(* Model of the PerformanceCore backend: the in-memory store               *)
(* (src/api/storage.py), the entity constraints (src/api/models.py), the   *)
(* HTTP handlers that bind them (src/api/main.py) and the report reshaping *)
(* of the analytics gateway (src/api/google_analytics.py).                 *)
(*                                                                         *)
(* Conventions.                                                            *)
(*  - An Optional[...] field is a set: {} is None, {v} is the value v.     *)
(*  - A str the code inspects character by character (Campaign.spend, the  *)
(*    metric strings of a report) is a sequence of one-character strings.  *)
(*  - The authorization URL is the sequence of the pieces the code joins:  *)
(*    the base, "?", and key, "=", value per parameter with "&" between.   *)
(*  - Every model object carries "oid", the identity of the Python object  *)
(*    (what id(obj) would return); it is no field of the entity.           *)
(*  - datetime.now() reads "clock", which moves on by one with every call  *)
(*    of a store method.                                                   *)
(***************************************************************************)
EXTENDS Integers, Sequences, FiniteSets, TLC

VARIABLES
    campaigns,      \* MemoryStorage.campaigns: the list object, in list order
    integrations,   \* MemoryStorage.integrations
    clock,          \* the reading datetime.now() returns
    objects,        \* number of entity objects constructed so far
    uuids,          \* number of uuid.uuid4() values drawn so far
    call,           \* the last store call: method and arguments
    ret,            \* what the last store call returned or raised
    pre,            \* the two lists as they were when the last call started
    prev,           \* call and ret of the call before the last one
    held,           \* the list a caller got from its last get_*() and kept
    reqs,           \* HTTP requests in flight, by connection
    report,         \* the upstream response handed to report reshaping / its result
    environ,        \* os.environ: the variables the OAuth endpoint reads
    ga_service,     \* the GoogleAnalyticsService singleton: its configuration
    oauth           \* the last authorization-URL call: arguments and outcome

vars ==
    <<campaigns, integrations, clock, objects, uuids, call, ret, pre, prev, held, reqs,
      report, environ, ga_service, oauth>>

gaVars == <<environ, ga_service, oauth>>

storeVars == <<campaigns, integrations, clock, objects, uuids, call, ret, pre, prev, held>>

(***************************************************************************)
(* Bounds of the model.                                                    *)
(***************************************************************************)
\* store calls in a behaviour of Spec
MaxOps == 2
\* store calls in a behaviour of SpecCampaigns
MaxCampaignOps == 3
\* HTTP requests received in a behaviour of SpecHttp
MaxRequests == 2
\* rows of an upstream report
MaxRows == 2

(***************************************************************************)
(* Helpers.                                                                *)
(***************************************************************************)
None == {}

Some(v) == {v}

\* index of the first element of a list that satisfies the test, 0 when none does
\* (the "for i, x in enumerate(lst): if x.id == ...: ... return" scan)
FirstIndex(lst, id) ==
    IF \E i \in 1..Len(lst) : lst[i].id = id
    THEN CHOOSE i \in 1..Len(lst) :
            /\ lst[i].id = id
            /\ \A j \in 1..(i - 1) : lst[j].id # id
    ELSE 0

\* del lst[i]
DelAt(lst, i) == [j \in 1..(Len(lst) - 1) |-> IF j < i THEN lst[j] ELSE lst[j + 1]]

Ids(lst) == {lst[i].id : i \in 1..Len(lst)}

Oids(lst) == [i \in 1..Len(lst) |-> lst[i].oid]

(***************************************************************************)
(* models.py: the entities.                                                *)
(***************************************************************************)
CampaignStatus == {"active", "paused", "completed", "draft"}

IntegrationStatus == {"connected", "disconnected", "error"}

CampaignFields ==
    {"id", "name", "type", "platform", "impressions", "clicks", "spend", "status",
     "created_at", "updated_at"}

IntegrationFields ==
    {"id", "platform", "status", "api_key", "account_id", "last_sync", "created_at"}

Digits == {"0", "1", "2", "3", "4", "5", "6", "7", "8", "9"}

\* str.isdigit(): non-empty and digits only
IsDigit(s) == Len(s) > 0 /\ \A i \in 1..Len(s) : s[i] \in Digits

\* the pattern of Campaign.spend, ^\d+(\.\d{1,2})?$
SpendPattern(s) ==
    \/ IsDigit(s)
    \/ \E k \in 2..(Len(s) - 1) :
          /\ s[k] = "."
          /\ IsDigit(SubSeq(s, 1, k - 1))
          /\ IsDigit(SubSeq(s, k + 1, Len(s)))
          /\ Len(s) - k <= 2

(***************************************************************************)
(* storage.py: MemoryStorage.__init__, the seeded store.                   *)
(***************************************************************************)
SeedCampaigns ==
    << [oid |-> 1, id |-> "1", name |-> "Summer Sale Campaign", type |-> "conversions",
        platform |-> "Facebook", impressions |-> 15420, clicks |-> 892,
        spend |-> <<"4", "5", "6", ".", "7", "8">>, status |-> "active",
        created_at |-> Some(0), updated_at |-> None],
       [oid |-> 2, id |-> "2", name |-> "Brand Awareness Push", type |-> "awareness",
        platform |-> "Google Ads", impressions |-> 28900, clicks |-> 1245,
        spend |-> <<"7", "8", "9", ".", "5", "0">>, status |-> "active",
        created_at |-> Some(0), updated_at |-> None],
       [oid |-> 3, id |-> "3", name |-> "Retargeting Campaign", type |-> "conversions",
        platform |-> "LinkedIn", impressions |-> 8750, clicks |-> 425,
        spend |-> <<"2", "3", "4", ".", "2", "5">>, status |-> "paused",
        created_at |-> Some(0), updated_at |-> None] >>

SeedIntegrations ==
    << [oid |-> 4, id |-> "1", platform |-> "Facebook", status |-> "connected",
        api_key |-> None, account_id |-> Some("fb_account_123"),
        last_sync |-> Some(0), created_at |-> Some(0)],
       [oid |-> 5, id |-> "2", platform |-> "Google Ads", status |-> "connected",
        api_key |-> None, account_id |-> Some("ga_account_456"),
        last_sync |-> Some(0), created_at |-> Some(0)],
       [oid |-> 6, id |-> "3", platform |-> "LinkedIn", status |-> "disconnected",
        api_key |-> None, account_id |-> None,
        last_sync |-> None, created_at |-> Some(0)],
       [oid |-> 7, id |-> "4", platform |-> "Twitter", status |-> "error",
        api_key |-> None, account_id |-> None,
        last_sync |-> None, created_at |-> Some(0)] >>

\* the values uuid.uuid4() returns, in the order drawn: fresh, pairwise different
\* and different from every other identifier in use
Uuid4 == <<"uuid-a", "uuid-b", "uuid-c", "uuid-d", "uuid-e">>

(***************************************************************************)
(* What a store method hands back: the exception it raised ("" when it     *)
(* returned), and the returned bool, object (a one-element sequence) or    *)
(* list reference.                                                         *)
(***************************************************************************)
NoResult == [raised |-> "", bool |-> FALSE, rec |-> <<>>, ref |-> ""]

Raised(e) == [NoResult EXCEPT !.raised = e]

ReturnedBool(b) == [NoResult EXCEPT !.bool = b]

ReturnedObject(o) == [NoResult EXCEPT !.rec = <<o>>]

ReturnedList(r) == [NoResult EXCEPT !.ref = r]

\* the list a reference returned by get_campaigns / get_integrations denotes now
Deref(r) ==
    IF r = "campaigns" THEN campaigns
    ELSE IF r = "integrations" THEN integrations
    ELSE <<>>

(***************************************************************************)
(* storage.py: the methods of MemoryStorage, as functions of the list they *)
(* work on. Each yields the list afterwards and the result.                *)
(***************************************************************************)
get_campaigns == ReturnedList("campaigns")

get_integrations == ReturnedList("integrations")

\* hasattr(obj, key) for an entity with the given fields: of the keys the patches
\* here bring, the entity has exactly those that name one of its fields
HasAttr(fields, key) == key \in fields

\* SetAttrs gone wrong: the object is rebuilt from the patch, and a counter the patch
\* does not name falls back to its default
SetAttrsResetting(obj, updates, fields) ==
    [f \in DOMAIN obj |->
        IF f \in DOMAIN updates /\ HasAttr(fields, f) THEN updates[f]
        ELSE IF f = "clicks" THEN 0
        ELSE obj[f]]

\* SetAttrs gone wrong: the loop is left after the first key it has set
SetAttrsFirstOnly(obj, updates, fields) ==
    LET keys == {k \in DOMAIN updates : HasAttr(fields, k)}
    IN  IF keys = {} THEN obj
        ELSE LET k == CHOOSE key \in keys : TRUE
             IN  [f \in DOMAIN obj |-> IF f = k THEN updates[f] ELSE obj[f]]

\* for key, value in updates.items(): if hasattr(obj, key): setattr(obj, key, value)
SetAttrs(obj, updates, fields) ==
    [f \in DOMAIN obj |->
        IF f \in DOMAIN updates /\ HasAttr(fields, f) THEN updates[f] ELSE obj[f]]

\* create_campaign gone wrong: the new record is put at the head of the list
create_campaign_prepend(lst, campaign, oid, uuid, now) ==
    LET c == [oid |-> oid, id |-> uuid, name |-> campaign.name, type |-> campaign.type,
              platform |-> campaign.platform, impressions |-> campaign.impressions,
              clicks |-> campaign.clicks, spend |-> campaign.spend,
              status |-> campaign.status,
              created_at |-> Some(now), updated_at |-> Some(now)]
    IN  [list |-> <<c>> \o lst, res |-> ReturnedObject(c)]

create_campaign(lst, campaign, oid, uuid, now) ==
    LET c == [oid |-> oid, id |-> uuid, name |-> campaign.name, type |-> campaign.type,
              platform |-> campaign.platform, impressions |-> campaign.impressions,
              clicks |-> campaign.clicks, spend |-> campaign.spend,
              status |-> campaign.status,
              created_at |-> Some(now), updated_at |-> Some(now)]
    IN  [list |-> Append(lst, c), res |-> ReturnedObject(c)]

\* update_campaign gone wrong: the scan that finds nothing falls off the end of the
\* method, which returns None instead of raising
update_campaign_silent(lst, campaign_id, updates, now) ==
    LET i == FirstIndex(lst, campaign_id)
    IN  IF i = 0
        THEN [list |-> lst, res |-> NoResult]
        ELSE LET patched == SetAttrs(lst[i], updates, CampaignFields)
                 campaign == [patched EXCEPT !.updated_at = Some(now)]
             IN  [list |-> [lst EXCEPT ![i] = campaign], res |-> ReturnedObject(campaign)]

update_campaign(lst, campaign_id, updates, now) ==
    LET i == FirstIndex(lst, campaign_id)
    IN  IF i = 0
        THEN [list |-> lst, res |-> Raised("ValueError")]
        ELSE LET patched == SetAttrs(lst[i], updates, CampaignFields)
                 campaign == [patched EXCEPT !.updated_at = Some(now)]
             IN  [list |-> [lst EXCEPT ![i] = campaign], res |-> ReturnedObject(campaign)]

delete_campaign(lst, campaign_id) ==
    LET i == FirstIndex(lst, campaign_id)
    IN  IF i = 0
        THEN [list |-> lst, res |-> ReturnedBool(FALSE)]
        ELSE [list |-> DelAt(lst, i), res |-> ReturnedBool(TRUE)]

create_integration(lst, integration, oid, uuid, now) ==
    LET g == [oid |-> oid, id |-> uuid, platform |-> integration.platform,
              status |-> integration.status, api_key |-> integration.api_key,
              account_id |-> integration.account_id,
              last_sync |-> None, created_at |-> Some(now)]
    IN  [list |-> Append(lst, g), res |-> ReturnedObject(g)]

\* update_integration gone wrong: last_sync is stamped before the patch is applied,
\* so that a last_sync of the patch wins
update_integration_stamp_first(lst, integration_id, updates, now) ==
    LET i == FirstIndex(lst, integration_id)
    IN  IF i = 0
        THEN [list |-> lst, res |-> Raised("ValueError")]
        ELSE LET stamped ==
                    IF "status" \in DOMAIN updates /\ updates.status = "connected"
                    THEN [lst[i] EXCEPT !.last_sync = Some(now)]
                    ELSE lst[i]
                 integration == SetAttrs(stamped, updates, IntegrationFields)
             IN  [list |-> [lst EXCEPT ![i] = integration],
                  res |-> ReturnedObject(integration)]

update_integration(lst, integration_id, updates, now) ==
    LET i == FirstIndex(lst, integration_id)
    IN  IF i = 0
        THEN [list |-> lst, res |-> Raised("ValueError")]
        ELSE LET patched == SetAttrs(lst[i], updates, IntegrationFields)
                 integration ==
                    IF "status" \in DOMAIN updates /\ updates.status = "connected"
                    THEN [patched EXCEPT !.last_sync = Some(now)]
                    ELSE patched
             IN  [list |-> [lst EXCEPT ![i] = integration],
                  res |-> ReturnedObject(integration)]

delete_integration(lst, integration_id) ==
    LET i == FirstIndex(lst, integration_id)
    IN  IF i = 0
        THEN [list |-> lst, res |-> ReturnedBool(FALSE)]
        ELSE [list |-> DelAt(lst, i), res |-> ReturnedBool(TRUE)]

(***************************************************************************)
(* Inputs of the store calls.                                              *)
(***************************************************************************)
\* an identifier no record carries
MissingId == "no-such-id"

TargetIds(lst) == Ids(lst) \cup {MissingId}

NoUpdates == <<>>

NoInput == <<>>

\* Campaign objects handed to create_campaign (the second one brings an id of its own)
CampaignInputs ==
    << [id |-> None, name |-> "Spring Sale", type |-> "traffic", platform |-> "TikTok",
        impressions |-> 0, clicks |-> 0, spend |-> <<"1", "0", "0">>,
        status |-> "active", created_at |-> None, updated_at |-> None],
       [id |-> Some("1"), name |-> "Winter Push", type |-> "awareness",
        platform |-> "Facebook", impressions |-> 10, clicks |-> 3,
        spend |-> <<"1", "0", "0", ".", "5", "0">>,
        status |-> "draft", created_at |-> Some(0), updated_at |-> None] >>

\* Integration objects handed to create_integration
IntegrationInputs ==
    << [id |-> None, platform |-> "TikTok", status |-> "disconnected",
        api_key |-> Some("key-1"), account_id |-> None,
        last_sync |-> None, created_at |-> None],
       [id |-> Some("2"), platform |-> "Snapchat", status |-> "connected",
        api_key |-> Some("key-2"), account_id |-> Some("acct-2"),
        last_sync |-> Some(0), created_at |-> None] >>

\* updates dictionaries handed to update_campaign
CampaignPatches ==
    << NoUpdates,
       [impressions |-> 500],
       [name |-> "Renamed", status |-> "paused"],
       [spend |-> <<"a", "b", "c">>],
       [impressions |-> 0 - 1, clicks |-> 7],
       [id |-> "1"],
       [updated_at |-> Some(0), created_at |-> None],
       [bogus |-> 1, platform |-> "TikTok"] >>

\* updates dictionaries handed to update_integration
IntegrationPatches ==
    << NoUpdates,
       [status |-> "connected"],
       [status |-> "connected", last_sync |-> Some(0)],
       [status |-> "connected", last_sync |-> None, api_key |-> Some("key-9")],
       [status |-> "error"],
       [api_key |-> Some("key-9"), account_id |-> Some("acct-9")],
       [id |-> "1"],
       [last_sync |-> None, bogus |-> 1] >>

(***************************************************************************)
(* main.py: the HTTP surface. One request per client connection; a request *)
(* is pending from its arrival until its handler runs, and done afterwards.*)
(***************************************************************************)
Connections == 1..MaxRequests

NoResponse == [status |-> 0, list |-> <<>>, res |-> NoResult]

IdleRequest ==
    [stage |-> "idle", method |-> "", path |-> "", id |-> "", body |-> <<>>,
     arrived |-> 0, order |-> 0, response |-> NoResponse]

(***************************************************************************)
(* The state after construction.                                           *)
(***************************************************************************)
NoCall == [op |-> "", id |-> "", updates |-> NoUpdates, input |-> NoInput]

NotHeld == [ref |-> "", at |-> <<>>]

NoReport ==
    [given |-> <<>>, parsed |-> FALSE, raised |-> "", campaigns |-> <<>>,
     total_metrics |-> <<>>]

\* os.environ with none of the variables the OAuth endpoint reads
NoEnvironment ==
    [GOOGLE_CLIENT_ID |-> None, GOOGLE_CLIENT_SECRET |-> None, REPLIT_DOMAINS |-> None]

\* GoogleAnalyticsService.__init__
NewService == [client_id |-> None, client_secret |-> None, redirect_uri |-> None]

NoOAuthCall ==
    [op |-> "", state |-> None, service |-> NewService, raised |-> "", status_code |-> 0,
     url |-> <<>>, response |-> [status |-> 0, body |-> <<>>]]

\* the process after its modules are loaded: the seeded store, the unconfigured
\* gateway, no request yet
Constructed ==
    /\ campaigns = SeedCampaigns
    /\ integrations = SeedIntegrations
    /\ clock = 1
    /\ objects = Len(SeedCampaigns) + Len(SeedIntegrations)
    /\ uuids = 0
    /\ call = NoCall
    /\ ret = NoResult
    /\ pre = [campaigns |-> SeedCampaigns, integrations |-> SeedIntegrations]
    /\ prev = [call |-> NoCall, ret |-> NoResult]
    /\ held = NotHeld
    /\ reqs = [c \in Connections |-> IdleRequest]
    /\ report = NoReport
    /\ ga_service = NewService
    /\ oauth = NoOAuthCall

Init ==
    /\ Constructed
    /\ environ = NoEnvironment

(***************************************************************************)
(* One call of a store method by a caller that awaits it: the method has   *)
(* no await of its own, so it runs from entry to return in one step.       *)
(***************************************************************************)
\* bookkeeping common to all calls: what was called, what came back, the lists before
Called(c, r) ==
    /\ call' = c
    /\ ret' = r
    /\ pre' = [campaigns |-> campaigns, integrations |-> integrations]
    /\ prev' = [call |-> call, ret |-> ret]
    /\ clock' = clock + 1

CallGetCampaigns(budget) ==
    /\ clock <= budget
    /\ Called([NoCall EXCEPT !.op = "get_campaigns"], get_campaigns)
    /\ held' = [ref |-> "campaigns", at |-> campaigns]
    /\ UNCHANGED <<campaigns, integrations, objects, uuids, reqs, report, gaVars>>

CallCreateCampaign(budget) ==
    /\ clock <= budget
    /\ uuids < Len(Uuid4)
    /\ \E k \in 1..Len(CampaignInputs) :
          LET r == create_campaign(campaigns, CampaignInputs[k], objects + 1,
                                   Uuid4[uuids + 1], clock)
          IN  /\ campaigns' = r.list
              /\ Called([NoCall EXCEPT !.op = "create_campaign",
                                       !.input = CampaignInputs[k]], r.res)
    /\ objects' = objects + 1
    /\ uuids' = uuids + 1
    /\ UNCHANGED <<integrations, held, reqs, report, gaVars>>

CallUpdateCampaign(budget, patches) ==
    /\ clock <= budget
    /\ \E id \in TargetIds(campaigns), k \in 1..Len(patches) :
          LET r == update_campaign(campaigns, id, patches[k], clock)
          IN  /\ campaigns' = r.list
              /\ Called([NoCall EXCEPT !.op = "update_campaign", !.id = id,
                                       !.updates = patches[k]], r.res)
    /\ UNCHANGED <<integrations, objects, uuids, held, reqs, report, gaVars>>

CallDeleteCampaign(budget) ==
    /\ clock <= budget
    /\ \E id \in TargetIds(campaigns) :
          LET r == delete_campaign(campaigns, id)
          IN  /\ campaigns' = r.list
              /\ Called([NoCall EXCEPT !.op = "delete_campaign", !.id = id], r.res)
    /\ UNCHANGED <<integrations, objects, uuids, held, reqs, report, gaVars>>

CallGetIntegrations(budget) ==
    /\ clock <= budget
    /\ Called([NoCall EXCEPT !.op = "get_integrations"], get_integrations)
    /\ held' = [ref |-> "integrations", at |-> integrations]
    /\ UNCHANGED <<campaigns, integrations, objects, uuids, reqs, report, gaVars>>

CallCreateIntegration(budget) ==
    /\ clock <= budget
    /\ uuids < Len(Uuid4)
    /\ \E k \in 1..Len(IntegrationInputs) :
          LET r == create_integration(integrations, IntegrationInputs[k], objects + 1,
                                      Uuid4[uuids + 1], clock)
          IN  /\ integrations' = r.list
              /\ Called([NoCall EXCEPT !.op = "create_integration",
                                       !.input = IntegrationInputs[k]], r.res)
    /\ objects' = objects + 1
    /\ uuids' = uuids + 1
    /\ UNCHANGED <<campaigns, held, reqs, report, gaVars>>

CallUpdateIntegration(budget, patches) ==
    /\ clock <= budget
    /\ \E id \in TargetIds(integrations), k \in 1..Len(patches) :
          LET r == update_integration(integrations, id, patches[k], clock)
          IN  /\ integrations' = r.list
              /\ Called([NoCall EXCEPT !.op = "update_integration", !.id = id,
                                       !.updates = patches[k]], r.res)
    /\ UNCHANGED <<campaigns, objects, uuids, held, reqs, report, gaVars>>

CallDeleteIntegration(budget) ==
    /\ clock <= budget
    /\ \E id \in TargetIds(integrations) :
          LET r == delete_integration(integrations, id)
          IN  /\ integrations' = r.list
              /\ Called([NoCall EXCEPT !.op = "delete_integration", !.id = id], r.res)
    /\ UNCHANGED <<campaigns, objects, uuids, held, reqs, report, gaVars>>

\* the store driven by sequential callers, both collections
Next ==
    \/ CallGetCampaigns(MaxOps)
    \/ CallCreateCampaign(MaxOps)
    \/ CallUpdateCampaign(MaxOps, CampaignPatches)
    \/ CallDeleteCampaign(MaxOps)
    \/ CallGetIntegrations(MaxOps)
    \/ CallCreateIntegration(MaxOps)
    \/ CallUpdateIntegration(MaxOps, IntegrationPatches)
    \/ CallDeleteIntegration(MaxOps)

Spec == Init /\ [][Next]_vars

\* the campaigns collection alone, one call deeper
NextCampaigns ==
    \/ CallGetCampaigns(MaxCampaignOps)
    \/ CallCreateCampaign(MaxCampaignOps)
    \/ CallUpdateCampaign(MaxCampaignOps, CampaignPatches)
    \/ CallDeleteCampaign(MaxCampaignOps)

SpecCampaigns == Init /\ [][NextCampaigns]_vars

(***************************************************************************)
(* models.py: validation of a request body against the Campaign model, as  *)
(* FastAPI does for a handler parameter of type Campaign.                  *)
(***************************************************************************)
MaxNameLength == 200

FieldOr(body, f, default) == IF f \in DOMAIN body THEN body[f] ELSE default

\* the Campaign object built from a body that names the required fields
CampaignObject(body) ==
    [id |-> FieldOr(body, "id", None), name |-> body.name, type |-> body.type,
     platform |-> body.platform, impressions |-> FieldOr(body, "impressions", 0),
     clicks |-> FieldOr(body, "clicks", 0), spend |-> body.spend,
     status |-> FieldOr(body, "status", "active"),
     created_at |-> FieldOr(body, "created_at", None),
     updated_at |-> FieldOr(body, "updated_at", None)]

\* Campaign(**body) succeeds
CampaignValid(body) ==
    /\ {"name", "type", "platform", "spend"} \subseteq DOMAIN body
    /\ LET c == CampaignObject(body)
       IN  /\ Len(c.name) >= 1
           /\ Len(c.name) <= MaxNameLength
           /\ Len(c.type) >= 1
           /\ Len(c.platform) >= 1
           /\ c.impressions >= 0
           /\ c.clicks >= 0
           /\ SpendPattern(c.spend)
           /\ c.status \in CampaignStatus

(***************************************************************************)
(* Requests the clients send.                                              *)
(***************************************************************************)
ValidBody ==
    [name |-> "Spring Sale", type |-> "traffic", platform |-> "TikTok",
     spend |-> <<"1", "0", "0">>]

\* JSON bodies of POST /api/campaigns: two that satisfy the Campaign model (spend
\* "100" and "100.50"), then one per constraint that a body can break
PostBodies ==
    << ValidBody,
       [id |-> Some("1"), name |-> "Winter Push", type |-> "awareness",
        platform |-> "Facebook", impressions |-> 10, clicks |-> 3,
        spend |-> <<"1", "0", "0", ".", "5", "0">>, status |-> "draft"],
       [ValidBody EXCEPT !.spend = <<"1", "0", "0", ".", "5", "5", "5">>],
       [ValidBody EXCEPT !.spend = <<"a", "b", "c">>],
       [ValidBody EXCEPT !.name = ""],
       [name |-> "Spring Sale", type |-> "traffic", platform |-> "TikTok"],
       [name |-> "Spring Sale", type |-> "traffic", platform |-> "TikTok",
        spend |-> <<"1", "0", "0">>, impressions |-> 0 - 1],
       [name |-> "Spring Sale", type |-> "traffic", platform |-> "TikTok",
        spend |-> <<"1", "0", "0">>, status |-> "archived"] >>

\* JSON bodies of PATCH /api/campaigns/{id}
HttpCampaignPatches ==
    << [impressions |-> 500],
       [clicks |-> 7, name |-> "Renamed"],
       [spend |-> <<"a", "b", "c">>],
       [status |-> "archived", platform |-> "TikTok"] >>

\* JSON bodies of PATCH /api/integrations/{id}
HttpIntegrationPatches ==
    << [status |-> "connected"],
       [api_key |-> Some("key-9"), account_id |-> Some("acct-9")] >>

\* identifiers in the paths of PATCH and DELETE requests
PathIds == {"1", MissingId}

Request(method, path, id, body) ==
    [IdleRequest EXCEPT !.stage = "pending", !.method = method, !.path = path,
                        !.id = id, !.body = body]

Requests ==
    {Request("GET", "campaigns", "", <<>>)}
    \cup {Request("POST", "campaigns", "", PostBodies[k]) : k \in 1..Len(PostBodies)}
    \cup {Request("PATCH", "campaigns", id, HttpCampaignPatches[k]) :
            id \in PathIds, k \in 1..Len(HttpCampaignPatches)}
    \cup {Request("DELETE", "campaigns", id, <<>>) : id \in PathIds}
    \cup {Request("PATCH", "integrations", id, HttpIntegrationPatches[k]) :
            id \in PathIds, k \in 1..Len(HttpIntegrationPatches)}

Handled == Cardinality({c \in Connections : reqs[c].stage = "done"})

\* a request arrives; until the event loop runs its handler it touches no store
Receive(c) ==
    /\ reqs[c].stage = "idle"
    /\ \E r \in Requests : reqs' = [reqs EXCEPT ![c] = [r EXCEPT !.arrived = Handled]]
    /\ UNCHANGED <<storeVars, report, gaVars>>

\* what the framework sends for a handler that returned (200, the serialised value:
\* for a list, its records as they are at that moment) or raised (500)
ResponseOf(r, lst) ==
    IF r.raised # ""
    THEN [status |-> 500, list |-> <<>>, res |-> r]
    ELSE [status |-> 200, list |-> IF r.ref # "" THEN lst ELSE <<>>, res |-> r]

Respond(c, response) ==
    reqs' = [reqs EXCEPT ![c] = [@ EXCEPT !.stage = "done", !.order = Handled + 1,
                                          !.response = response]]

\* @app.get("/api/campaigns")
HandleGetCampaigns(c) ==
    /\ reqs[c].stage = "pending" /\ reqs[c].method = "GET" /\ reqs[c].path = "campaigns"
    /\ Called([NoCall EXCEPT !.op = "get_campaigns"], get_campaigns)
    /\ Respond(c, ResponseOf(get_campaigns, campaigns))
    /\ UNCHANGED <<campaigns, integrations, objects, uuids, held, report, gaVars>>

\* @app.post("/api/campaigns"): the body is validated against Campaign before the
\* handler is entered; a body that fails is answered 422 and the handler never runs
HandlePostCampaign(c) ==
    /\ reqs[c].stage = "pending" /\ reqs[c].method = "POST" /\ reqs[c].path = "campaigns"
    /\ IF CampaignValid(reqs[c].body)
       THEN /\ uuids < Len(Uuid4)
            /\ LET r == create_campaign(campaigns, CampaignObject(reqs[c].body),
                                        objects + 1, Uuid4[uuids + 1], clock)
               IN  /\ campaigns' = r.list
                   /\ Called([NoCall EXCEPT !.op = "create_campaign",
                                            !.input = CampaignObject(reqs[c].body)], r.res)
                   /\ Respond(c, ResponseOf(r.res, <<>>))
            /\ objects' = objects + 1
            /\ uuids' = uuids + 1
            /\ UNCHANGED <<integrations, held, report, gaVars>>
       ELSE /\ Respond(c, [NoResponse EXCEPT !.status = 422])
            /\ UNCHANGED <<storeVars, report, gaVars>>

\* @app.patch("/api/campaigns/{campaign_id}"): updates is a plain dict
HandlePatchCampaign(c) ==
    /\ reqs[c].stage = "pending" /\ reqs[c].method = "PATCH" /\ reqs[c].path = "campaigns"
    /\ LET r == update_campaign(campaigns, reqs[c].id, reqs[c].body, clock)
       IN  /\ campaigns' = r.list
           /\ Called([NoCall EXCEPT !.op = "update_campaign", !.id = reqs[c].id,
                                    !.updates = reqs[c].body], r.res)
           /\ Respond(c, ResponseOf(r.res, <<>>))
    /\ UNCHANGED <<integrations, objects, uuids, held, report, gaVars>>

\* @app.delete("/api/campaigns/{campaign_id}")
HandleDeleteCampaign(c) ==
    /\ reqs[c].stage = "pending" /\ reqs[c].method = "DELETE" /\ reqs[c].path = "campaigns"
    /\ LET r == delete_campaign(campaigns, reqs[c].id)
       IN  /\ campaigns' = r.list
           /\ Called([NoCall EXCEPT !.op = "delete_campaign", !.id = reqs[c].id], r.res)
           /\ Respond(c, ResponseOf(r.res, <<>>))
    /\ UNCHANGED <<integrations, objects, uuids, held, report, gaVars>>

\* @app.patch("/api/integrations/{integration_id}")
HandlePatchIntegration(c) ==
    /\ reqs[c].stage = "pending" /\ reqs[c].method = "PATCH"
    /\ reqs[c].path = "integrations"
    /\ LET r == update_integration(integrations, reqs[c].id, reqs[c].body, clock)
       IN  /\ integrations' = r.list
           /\ Called([NoCall EXCEPT !.op = "update_integration", !.id = reqs[c].id,
                                    !.updates = reqs[c].body], r.res)
           /\ Respond(c, ResponseOf(r.res, <<>>))
    /\ UNCHANGED <<campaigns, objects, uuids, held, report, gaVars>>

\* the server under concurrent clients: requests arrive in any order and the event
\* loop runs the handlers of the pending ones one at a time, in any order
NextHttp ==
    \E c \in Connections :
        \/ Receive(c)
        \/ HandleGetCampaigns(c)
        \/ HandlePostCampaign(c)
        \/ HandlePatchCampaign(c)
        \/ HandleDeleteCampaign(c)
        \/ HandlePatchIntegration(c)

SpecHttp == Init /\ [][NextHttp]_vars

(***************************************************************************)
(* The storage contract (spec 4.2, 8), stated on the last call: "call" and *)
(* "ret" say what was called and what came back, "pre" holds the lists as  *)
(* they were when the call started, and clock - 1 is the time of the call. *)
(***************************************************************************)
CallTime == clock - 1

UpdateOfMissing(op, before) == call.op = op /\ call.id \notin Ids(before)

UpdateOfExisting(op, before) == call.op = op /\ call.id \in Ids(before)

\* C1: update(id, patch) with an id that no record of the collection carries raises
\* the not-found error (ValueError "... not found") and leaves the list as it was:
\* same length, same records, same field values. Campaigns and integrations alike.
C1_UpdateMissingFailsUnchanged ==
    /\ UpdateOfMissing("update_campaign", pre.campaigns) =>
          /\ ret = Raised("ValueError")
          /\ campaigns = pre.campaigns
          /\ integrations = pre.integrations
    /\ UpdateOfMissing("update_integration", pre.integrations) =>
          /\ ret = Raised("ValueError")
          /\ integrations = pre.integrations
          /\ campaigns = pre.campaigns

\* an update of a missing integration right after an update of a missing campaign,
\* both with a patch that names fields
C1_Witness ==
    /\ prev.call.op = "update_campaign"
    /\ prev.call.id = MissingId
    /\ "impressions" \in DOMAIN prev.call.updates
    /\ prev.ret.raised = "ValueError"
    /\ call.op = "update_integration"
    /\ call.id = MissingId
    /\ "status" \in DOMAIN call.updates
    /\ ret.raised = "ValueError"

\* C2: update_campaign on an existing campaign changes only fields the patch names:
\* a field absent from the patch keeps its value, every other record of the list is
\* untouched, the list keeps its length, and updated_at becomes the time of the call,
\* later than the value it had.
C2_UpdateCampaignFrame ==
    UpdateOfExisting("update_campaign", pre.campaigns) =>
        LET i == FirstIndex(pre.campaigns, call.id)
            old == pre.campaigns[i]
            new == campaigns[i]
        IN  /\ Len(campaigns) = Len(pre.campaigns)
            /\ \A j \in 1..Len(campaigns) : j # i => campaigns[j] = pre.campaigns[j]
            /\ new.oid = old.oid
            /\ \A f \in CampaignFields \ (DOMAIN call.updates \cup {"updated_at"}) :
                  new[f] = old[f]
            /\ new.updated_at = Some(CallTime)
            /\ \A t \in old.updated_at : t < CallTime
            /\ integrations = pre.integrations

\* the patch {impressions: 500} applied to a campaign that an earlier update stamped
C2_Witness ==
    /\ UpdateOfExisting("update_campaign", pre.campaigns)
    /\ DOMAIN call.updates = {"impressions"}
    /\ pre.campaigns[FirstIndex(pre.campaigns, call.id)].updated_at # None
    /\ pre.campaigns[FirstIndex(pre.campaigns, call.id)].impressions # 500
    /\ campaigns[FirstIndex(pre.campaigns, call.id)].impressions = 500

\* C3: update_integration on an existing integration with a patch whose status is
\* "connected" stores and returns a record whose last_sync is set and is no older
\* than the time of the call, whatever else the patch holds (a last_sync included).
C3_ConnectedStampsLastSync ==
    ( /\ UpdateOfExisting("update_integration", pre.integrations)
      /\ "status" \in DOMAIN call.updates
      /\ call.updates.status = "connected" ) =>
        LET i == FirstIndex(pre.integrations, call.id)
        IN  /\ integrations[i].last_sync # None
            /\ \A t \in integrations[i].last_sync : t >= CallTime
            /\ ret = ReturnedObject(integrations[i])

\* a patch that sets status to "connected" and brings a last_sync of None
C3_Witness ==
    /\ UpdateOfExisting("update_integration", pre.integrations)
    /\ DOMAIN call.updates = {"status", "last_sync", "api_key"}
    /\ call.updates.status = "connected"
    /\ call.updates.last_sync = None
    /\ pre.integrations[FirstIndex(pre.integrations, call.id)].status # "connected"

\* what delete(id) owes its caller, for one collection
DeleteContract(op, before, after) ==
    call.op = op =>
        /\ call.id \notin Ids(before) => (ret = ReturnedBool(FALSE) /\ after = before)
        /\ call.id \in Ids(before) =>
              /\ ret = ReturnedBool(TRUE)
              /\ \E i \in 1..Len(before) : before[i].id = call.id /\ after = DelAt(before, i)
        /\ ret.raised = ""
        /\ (prev.call.op = op /\ prev.call.id = call.id /\ prev.ret = ReturnedBool(TRUE)) =>
              ret = ReturnedBool(FALSE)

\* C4: delete(id) returns false and leaves the list unchanged when no record carries
\* id; it returns true and removes exactly one record, the others keeping their order,
\* when one does; deleting the same id twice in a row gives true, then false, and no
\* error.
C4_DeleteContract ==
    /\ DeleteContract("delete_campaign", pre.campaigns, campaigns)
    /\ DeleteContract("delete_integration", pre.integrations, integrations)

UniqueIds(lst) == \A i, j \in 1..Len(lst) : i # j => lst[i].id # lst[j].id

\* C5: no two records of a collection carry the same identifier, in any state that
\* create, update and delete calls reach from the seeded store.
C5_IdentifiersUnique == UniqueIds(campaigns) /\ UniqueIds(integrations)

\* the objects of a list stand in the order of their construction
InCreationOrder(lst) == \A i, j \in 1..Len(lst) : i < j => lst[i].oid < lst[j].oid

\* C6: the list read by list() holds the records in insertion order: a created record
\* stands after every record created before it, and an update or a delete leaves the
\* relative order of the remaining records as it was.
C6_InsertionOrder ==
    /\ InCreationOrder(campaigns)
    /\ InCreationOrder(integrations)
    /\ call.op = "create_campaign" => campaigns = Append(pre.campaigns, ret.rec[1])
    /\ call.op = "create_integration" => integrations = Append(pre.integrations, ret.rec[1])
    /\ call.op = "update_campaign" => Oids(campaigns) = Oids(pre.campaigns)
    /\ call.op = "update_integration" => Oids(integrations) = Oids(pre.integrations)
    /\ call.op \in {"get_campaigns", "get_integrations"} =>
          /\ Deref(ret.ref) = pre[ret.ref]
          /\ campaigns = pre.campaigns
          /\ integrations = pre.integrations

\* a create that follows a delete of a record in the middle of the list
C6_Witness ==
    /\ prev.call.op = "delete_campaign"
    /\ prev.call.id = "2"
    /\ prev.ret.bool
    /\ call.op = "create_campaign"
    /\ Len(campaigns) = 3

\* C7: the sequence a caller got from list() stays as it was when list() returned,
\* whatever create, update or delete is performed afterwards.
C7_ListIsSnapshot == held.ref # "" => Deref(held.ref) = held.at

(***************************************************************************)
(* The entity constraints at the HTTP surface (spec 3, 4.1).               *)
(***************************************************************************)
\* the constraints of a stored campaign
CampaignConstraints(c) ==
    /\ SpendPattern(c.spend)
    /\ c.impressions >= 0
    /\ c.clicks >= 0
    /\ c.name # ""
    /\ c.status \in CampaignStatus

\* a partial update that names a field with a value the field's constraint excludes
PatchViolates(body) ==
    \/ "spend" \in DOMAIN body /\ ~SpendPattern(body.spend)
    \/ "impressions" \in DOMAIN body /\ body.impressions < 0
    \/ "clicks" \in DOMAIN body /\ body.clicks < 0
    \/ "name" \in DOMAIN body /\ body.name = ""
    \/ "status" \in DOMAIN body /\ body.status \notin CampaignStatus

Done(c) == reqs[c].stage = "done"

IsRequest(c, method, path) == reqs[c].method = method /\ reqs[c].path = path

\* C8: whatever POST /api/campaigns and PATCH /api/campaigns/{id} requests were
\* served, every stored campaign satisfies the entity constraints, and a create or a
\* partial update that would violate one is answered with a validation error.
C8_StoredCampaignsValid ==
    /\ \A i \in 1..Len(campaigns) : CampaignConstraints(campaigns[i])
    /\ \A c \in Connections :
          (Done(c) /\ IsRequest(c, "POST", "campaigns") /\ ~CampaignValid(reqs[c].body)) =>
              reqs[c].response.status = 422
    /\ \A c \in Connections :
          (Done(c) /\ IsRequest(c, "PATCH", "campaigns") /\ PatchViolates(reqs[c].body)) =>
              reqs[c].response.status = 422

(***************************************************************************)
(* Concurrent request handlers on the shared store (spec 4.2, 5).          *)
(***************************************************************************)
\* the fields of a campaign a PATCH body names (updated_at is the store's to set)
Names(c) == (DOMAIN reqs[c].body \cap CampaignFields) \ {"updated_at"}

OkPatch(c) == Done(c) /\ IsRequest(c, "PATCH", "campaigns") /\ reqs[c].response.status = 200

Shows(x, c) == \A f \in Names(c) : x[f] = reqs[c].body[f]

ShowsNothingOf(x, c) == \A f \in Names(c) : x[f] # reqs[c].body[f]

\* request e is a write to fields F of the campaign id, or its removal
Disturbs(e, id, F) ==
    /\ reqs[e].stage # "idle"
    /\ reqs[e].path = "campaigns"
    /\ reqs[e].id = id
    /\ \/ reqs[e].method = "DELETE"
       \/ reqs[e].method = "PATCH" /\ Names(e) \cap F # {}

Overlap(c, d) == reqs[c].arrived < reqs[d].order /\ reqs[d].arrived < reqs[c].order

\* two served updates of one record that patch different fields both persist
NoLostUpdate ==
    \A c, d \in Connections :
        ( /\ c # d
          /\ OkPatch(c) /\ OkPatch(d)
          /\ reqs[c].id = reqs[d].id
          /\ Names(c) \cap Names(d) = {}
          /\ \A e \in Connections \ {c, d} :
                ~Disturbs(e, reqs[c].id, Names(c) \cup Names(d)) ) =>
            LET x == campaigns[FirstIndex(campaigns, reqs[c].id)]
            IN  Shows(x, c) /\ Shows(x, d) /\ x.updated_at # None

\* a served list shows each update of a record whole or not at all: whole, stamped,
\* when the update was served before the list, and not at all otherwise
NoPartialRead ==
    \A g, p \in Connections :
        ( /\ Done(g) /\ IsRequest(g, "GET", "campaigns")
          /\ reqs[p].stage # "idle" /\ IsRequest(p, "PATCH", "campaigns")
          /\ \A e \in Connections \ {p} :
                ~Disturbs(e, reqs[p].id, Names(p)) ) =>
            \A i \in 1..Len(reqs[g].response.list) :
                LET x == reqs[g].response.list[i]
                IN  x.id = reqs[p].id =>
                        IF OkPatch(p) /\ reqs[p].order < reqs[g].order
                        THEN Shows(x, p) /\ x.updated_at # None
                        ELSE ShowsNothingOf(x, p)

\* C9: under any interleaving of concurrent request handlers the updates take effect
\* whole and one after the other: two concurrent updates of the same record that patch
\* different fields both persist, and a concurrent list never shows a record with
\* only part of a patch applied.
C9_AtomicHandlers == NoLostUpdate /\ NoPartialRead

\* two updates of campaign "1" on different fields were pending at once and both
\* were served
C9_Witness ==
    \E c, d \in Connections :
        /\ OkPatch(c) /\ OkPatch(d)
        /\ reqs[c].id = "1" /\ reqs[d].id = "1"
        /\ Names(c) = {"impressions"}
        /\ Names(d) = {"clicks", "name"}
        /\ Overlap(c, d)
        /\ reqs[c].order < reqs[d].order

(***************************************************************************)
(* google_analytics.py: report reshaping. A JSON object is a function from *)
(* its keys; d.get(key, default) is FieldOr(d, key, default).              *)
(***************************************************************************)
DigitSeq == <<"0", "1", "2", "3", "4", "5", "6", "7", "8", "9">>

DigitValue(ch) == (CHOOSE k \in 1..Len(DigitSeq) : DigitSeq[k] = ch) - 1

\* int(s) of a string of digits
RECURSIVE ToInt(_)
ToInt(s) ==
    IF Len(s) = 0 THEN 0
    ELSE 10 * ToInt(SubSeq(s, 1, Len(s) - 1)) + DigitValue(s[Len(s)])

\* s.replace('.', '')
RECURSIVE WithoutPoints(_)
WithoutPoints(s) ==
    IF Len(s) = 0 THEN <<>>
    ELSE IF Head(s) = "." THEN WithoutPoints(Tail(s))
    ELSE <<Head(s)>> \o WithoutPoints(Tail(s))

Points(s) == Cardinality({i \in 1..Len(s) : s[i] = "."})

\* int(m) if m.isdigit() else 0
IntOrZero(m) == IF IsDigit(m) THEN ToInt(m) ELSE 0

\* a float as units / 10^scale, without trailing zeros after the point
RECURSIVE Decimal(_, _)
Decimal(units, scale) ==
    IF scale > 0 /\ units % 10 = 0
    THEN Decimal(units \div 10, scale - 1)
    ELSE [units |-> units, scale |-> scale]

DigitsAfterPoint(m) == Len(m) - (CHOOSE k \in 1..Len(m) : m[k] = ".")

\* float(m) if m.replace('.', '').isdigit() else 0: float() raises ValueError for a
\* string with more than one point
FloatOrZero(m) ==
    IF ~IsDigit(WithoutPoints(m)) THEN [raised |-> "", value |-> Decimal(0, 0)]
    ELSE IF Points(m) > 1 THEN [raised |-> "ValueError", value |-> Decimal(0, 0)]
    ELSE IF Points(m) = 0 THEN [raised |-> "", value |-> Decimal(ToInt(m), 0)]
    ELSE [raised |-> "", value |-> Decimal(ToInt(WithoutPoints(m)), DigitsAfterPoint(m))]

EmptyDict == <<>>

\* the body of the loop for one row: the exception it raises, whether the row is
\* included, and the campaign entry it appends
ParseRow(row) ==
    LET dimensions == FieldOr(row, "dimensions", <<>>)
        metricsList == FieldOr(row, "metrics", <<EmptyDict>>)
        skipped == [raised |-> "", included |-> FALSE, entry |-> EmptyDict]
    IN  IF Len(metricsList) = 0
        THEN [skipped EXCEPT !.raised = "IndexError"]
        ELSE LET metrics == FieldOr(metricsList[1], "values", <<>>)
             IN  IF Len(dimensions) >= 3 /\ Len(metrics) >= 5
                 THEN LET bounce_rate == FloatOrZero(metrics[4])
                          avg_duration == FloatOrZero(metrics[5])
                      IN  IF bounce_rate.raised # "" \/ avg_duration.raised # ""
                          THEN [skipped EXCEPT !.raised = "ValueError"]
                          ELSE [raised |-> "", included |-> TRUE,
                                entry |-> [name |-> dimensions[3],
                                           source |-> dimensions[1],
                                           medium |-> dimensions[2],
                                           sessions |-> IntOrZero(metrics[1]),
                                           users |-> IntOrZero(metrics[2]),
                                           pageviews |-> IntOrZero(metrics[3]),
                                           bounce_rate |-> bounce_rate.value,
                                           avg_session_duration |-> avg_duration.value]]
                 ELSE skipped

\* for row in rows: ..., from the accumulators acc
RECURSIVE ParseRows(_, _)
ParseRows(rows, acc) ==
    IF Len(rows) = 0 \/ acc.raised # "" THEN acc
    ELSE LET r == ParseRow(Head(rows))
         IN  IF r.raised # "" THEN [acc EXCEPT !.raised = r.raised]
             ELSE IF ~r.included THEN ParseRows(Tail(rows), acc)
             ELSE ParseRows(Tail(rows),
                    [raised |-> "",
                     campaigns |-> Append(acc.campaigns, r.entry),
                     total_sessions |-> acc.total_sessions + r.entry.sessions,
                     total_users |-> acc.total_users + r.entry.users,
                     total_pageviews |-> acc.total_pageviews + r.entry.pageviews])

\* _parse_analytics_response gone wrong: a report without rows is answered like a
\* response without a report
parse_analytics_response_early(response_data) ==
    LET reports == FieldOr(response_data, "reports", <<>>)
        rows == IF Len(reports) = 0 THEN <<>>
                ELSE FieldOr(FieldOr(reports[1], "data", EmptyDict), "rows", <<>>)
    IN  IF Len(rows) = 0
        THEN [raised |-> "", campaigns |-> <<>>, total_metrics |-> EmptyDict]
        ELSE LET out == ParseRows(rows, [raised |-> "", campaigns |-> <<>>,
                                         total_sessions |-> 0, total_users |-> 0,
                                         total_pageviews |-> 0])
             IN  IF out.raised # ""
                 THEN [raised |-> out.raised, campaigns |-> <<>>,
                       total_metrics |-> EmptyDict]
                 ELSE [raised |-> "", campaigns |-> out.campaigns,
                       total_metrics |-> [total_sessions |-> out.total_sessions,
                                          total_users |-> out.total_users,
                                          total_pageviews |-> out.total_pageviews]]

\* GoogleAnalyticsService._parse_analytics_response
parse_analytics_response(response_data) ==
    LET reports == FieldOr(response_data, "reports", <<>>)
    IN  IF Len(reports) = 0
        THEN [raised |-> "", campaigns |-> <<>>, total_metrics |-> EmptyDict]
        ELSE LET rows == FieldOr(FieldOr(reports[1], "data", EmptyDict), "rows", <<>>)
                 out == ParseRows(rows, [raised |-> "", campaigns |-> <<>>,
                                         total_sessions |-> 0, total_users |-> 0,
                                         total_pageviews |-> 0])
             IN  IF out.raised # ""
                 THEN [raised |-> out.raised, campaigns |-> <<>>,
                       total_metrics |-> EmptyDict]
                 ELSE [raised |-> "", campaigns |-> out.campaigns,
                       total_metrics |-> [total_sessions |-> out.total_sessions,
                                          total_users |-> out.total_users,
                                          total_pageviews |-> out.total_pageviews]]

(***************************************************************************)
(* Upstream responses handed to the reshaping.                             *)
(***************************************************************************)
MetricValues(a, b, c, d, e) == <<[values |-> <<a, b, c, d, e>>]>>

\* rows of a report: the row of spec 8; a row with metric strings that are no
\* numbers; rows short of dimensions or of metric values; a row without metrics; a
\* row with more of both; a row with an empty metrics list; a row whose bounce rate
\* has two points
RowSamples ==
    << [dimensions |-> <<"google", "cpc", "Spring Sale">>,
        metrics |-> MetricValues(<<"1", "2", "0">>, <<"4", "5">>, <<"3", "0", "0">>,
                                 <<"0", ".", "4", "2">>, <<"9", "5", ".", "5">>)],
       [dimensions |-> <<"bing", "organic", "Brand">>,
        metrics |-> MetricValues(<<"7">>, <<"x">>, <<"1", ".", "5">>,
                                 <<"a", "b", "c">>, <<".">>)],
       [dimensions |-> <<"google", "cpc">>,
        metrics |-> MetricValues(<<"9">>, <<"9">>, <<"9">>, <<"1">>, <<"1">>)],
       [dimensions |-> <<"mail", "email", "News">>,
        metrics |-> <<[values |-> <<<<"9">>, <<"9">>, <<"9">>, <<"1">>>>]>>],
       [dimensions |-> <<"mail", "email", "News">>],
       [dimensions |-> <<"fb", "social", "Promo", "extra">>,
        metrics |-> <<[values |-> <<<<"3">>, <<>>, <<"0", "5">>, <<"5", ".">>,
                                    <<"1", "0">>, <<"8">>>>]>>],
       [dimensions |-> <<"fb", "social", "Promo">>, metrics |-> <<>>],
       [dimensions |-> <<"fb", "social", "Promo">>,
        metrics |-> MetricValues(<<"2">>, <<"2">>, <<"2">>,
                                 <<"1", ".", "2", ".", "3">>, <<"1">>)] >>

RECURSIVE RowLists(_)
RowLists(n) ==
    IF n = 0 THEN {<<>>}
    ELSE LET shorter == RowLists(n - 1)
         IN  shorter \cup {Append(rs, RowSamples[k]) :
                              rs \in {l \in shorter : Len(l) = n - 1},
                              k \in 1..Len(RowSamples)}

\* a report with data and rows, per row list
ReportsWithRows == {[data |-> [rows |-> rs]] : rs \in RowLists(MaxRows)}

\* a report without rows: no "data", or "data" without "rows"
ReportsWithoutRows == <<EmptyDict, [data |-> EmptyDict]>>

Responses ==
    {[reports |-> <<r>>] : r \in ReportsWithRows}

\* upstream responses that hold no report: no "reports" key, or an empty list
ResponsesWithoutReport == <<EmptyDict, [reports |-> <<>>]>>

\* get_campaign_data received the upstream response (status 200)
FetchReport ==
    /\ report.given = <<>> \/ report.parsed
    /\ \/ \E r \in Responses : report' = [NoReport EXCEPT !.given = <<r>>]
       \/ \E k \in 1..Len(ResponsesWithoutReport) :
             report' = [NoReport EXCEPT !.given = <<ResponsesWithoutReport[k]>>]
       \/ \E k \in 1..Len(ReportsWithoutRows) :
             report' = [NoReport EXCEPT !.given = <<[reports |-> <<ReportsWithoutRows[k]>>]>>]
       \/ \E k \in 1..Len(ReportsWithoutRows) :
             report' = [NoReport EXCEPT
                           !.given = <<[reports |-> <<ReportsWithoutRows[k],
                                                      [data |-> [rows |-> <<RowSamples[1]>>]]>>]>>]
    /\ UNCHANGED <<storeVars, reqs, gaVars>>

\* return self._parse_analytics_response(response.json())
ParseReport ==
    /\ report.given # <<>>
    /\ ~report.parsed
    /\ LET out == parse_analytics_response(report.given[1])
       IN  report' = [report EXCEPT !.parsed = TRUE, !.raised = out.raised,
                                    !.campaigns = out.campaigns,
                                    !.total_metrics = out.total_metrics]
    /\ UNCHANGED <<storeVars, reqs, gaVars>>

NextParse == FetchReport \/ ParseReport

SpecParse == Init /\ [][NextParse]_vars

(***************************************************************************)
(* Report reshaping (spec 4.3, 8).                                         *)
(***************************************************************************)
GivenReports == FieldOr(report.given[1], "reports", <<>>)

GivenRows == FieldOr(FieldOr(GivenReports[1], "data", EmptyDict), "rows", <<>>)

Reshaped == report.given # <<>> /\ report.parsed

\* the upstream response holds no report
WithoutReport == Reshaped /\ Len(GivenReports) = 0

\* the upstream response holds a report, and the report has zero rows
WithZeroRows == Reshaped /\ Len(GivenReports) > 0 /\ Len(GivenRows) = 0

EmptyResult ==
    /\ report.raised = ""
    /\ report.campaigns = <<>>
    /\ DOMAIN report.total_metrics = {}

ZeroTotals == [total_sessions |-> 0, total_users |-> 0, total_pageviews |-> 0]

\* C10 as stated: an upstream response without report data, or whose report has
\* zero rows, is reshaped to an empty campaign list and an empty totals mapping.
C10_EmptyTotalsWithoutRows == (WithoutReport \/ WithZeroRows) => EmptyResult

\* C10, amended: an upstream response without a report (no "reports", or an empty
\* list) is reshaped to an empty campaign list and an empty totals mapping; a report
\* with zero rows is reshaped to an empty campaign list and totals of explicit zeros.
C10_EmptyTotalsWithoutReport ==
    /\ WithoutReport => EmptyResult
    /\ WithZeroRows =>
          /\ report.raised = ""
          /\ report.campaigns = <<>>
          /\ DOMAIN report.total_metrics = DOMAIN ZeroTotals
          /\ report.total_metrics = ZeroTotals

\* a report that has data but zero rows has been reshaped
C10_Witness ==
    /\ WithZeroRows
    /\ "data" \in DOMAIN GivenReports[1]
    /\ report.total_metrics = ZeroTotals

\* the dimension values and the metric values a row brings
RowDimensions(row) == FieldOr(row, "dimensions", <<>>)

RowValues(row) ==
    LET metricsList == FieldOr(row, "metrics", <<>>)
    IN  IF Len(metricsList) = 0 THEN <<>> ELSE FieldOr(metricsList[1], "values", <<>>)

\* a row with at least 3 dimension values and at least 5 metric values
Qualifies(row) == Len(RowDimensions(row)) >= 3 /\ Len(RowValues(row)) >= 5

\* the integer value of a metric string of digits, 0 for any other string
DigitsValue(m) == IF IsDigit(m) THEN ToInt(m) ELSE 0

RECURSIVE SumOf(_, _)
SumOf(entries, field) ==
    IF Len(entries) = 0 THEN 0 ELSE Head(entries)[field] + SumOf(Tail(entries), field)

\* the entries and totals of a reshaped report are those of its qualifying rows
EntriesOfQualifyingRows ==
    LET rows == SelectSeq(GivenRows, Qualifies)
    IN  /\ Len(report.campaigns) = Len(rows)
        /\ \A k \in 1..Len(rows) :
              /\ k <= Len(report.campaigns)
              /\ report.campaigns[k].source = RowDimensions(rows[k])[1]
              /\ report.campaigns[k].medium = RowDimensions(rows[k])[2]
              /\ report.campaigns[k].name = RowDimensions(rows[k])[3]
              /\ report.campaigns[k].sessions = DigitsValue(RowValues(rows[k])[1])
              /\ report.campaigns[k].users = DigitsValue(RowValues(rows[k])[2])
              /\ report.campaigns[k].pageviews = DigitsValue(RowValues(rows[k])[3])
        /\ DOMAIN report.total_metrics = DOMAIN ZeroTotals
        /\ report.total_metrics.total_sessions = SumOf(report.campaigns, "sessions")
        /\ report.total_metrics.total_users = SumOf(report.campaigns, "users")
        /\ report.total_metrics.total_pageviews = SumOf(report.campaigns, "pageviews")

\* C11: reshaping a report emits one campaign entry, in input order, for each row with
\* at least 3 dimension values and at least 5 metric values and none for any other
\* row; sessions, users and pageviews of an entry are the integer value of the metric
\* string when it is all digits and 0 otherwise; the three totals are the sums of
\* these fields over the emitted entries.
C11_OneEntryPerQualifyingRow ==
    (Reshaped /\ Len(GivenReports) > 0) =>
        /\ report.raised = ""
        /\ EntriesOfQualifyingRows

\* an update request whose path names an identifier no record carries, answered
UpdateOfUnknownId(c) ==
    /\ Done(c)
    /\ reqs[c].method = "PATCH"
    /\ reqs[c].response.res.raised = "ValueError"

ClientErrors == 400..499

\* a request handled after request c got the answer its own content calls for
ServedNormally(d) ==
    \/ reqs[d].response.status = 200
    \/ reqs[d].response.status = 422 /\ ~CampaignValid(reqs[d].body)
    \/ UpdateOfUnknownId(d)

\* the failure of an update of an unknown identifier is confined to its request: the
\* store is as it was before the call and requests handled later are served normally
FailureConfined ==
    /\ \A c \in Connections :
          UpdateOfUnknownId(c) =>
              \A d \in Connections :
                  (Done(d) /\ reqs[d].order > reqs[c].order) => ServedNormally(d)
    /\ (call.op \in {"update_campaign", "update_integration"} /\ ret.raised = "ValueError")
          => (campaigns = pre.campaigns /\ integrations = pre.integrations)

\* C12: a PATCH of campaigns or integrations for an identifier that no record carries
\* is answered with a client error (4xx), not a server error; the store is as it was
\* before the request, and requests handled after it are served normally.
C12_UnknownIdIsClientError ==
    /\ \A c \in Connections :
          UpdateOfUnknownId(c) => reqs[c].response.status \in ClientErrors
    /\ FailureConfined

(***************************************************************************)
(* The authorization URL of the analytics gateway                          *)
(* (GoogleAnalyticsService.get_oauth_url) and the endpoint that serves it  *)
(* (GET /api/auth/google/url).                                             *)
(***************************************************************************)
\* Python truth of an Optional[str]: None and "" are false
Truthy(s) == s # None /\ s # Some("")

\* x or "" for an Optional[str]
OrEmpty(x) == IF x = None THEN "" ELSE CHOOSE v \in x : TRUE

base_url == "https://accounts.google.com/o/oauth2/v2/auth"

\* " ".join(scopes)
scope ==
    "https://www.googleapis.com/auth/analytics.readonly"
        \o " " \o "https://www.googleapis.com/auth/userinfo.email"

\* the params dict in insertion order, "state" added last when state is truthy
OAuthParams(service, state) ==
    << <<"client_id", OrEmpty(service.client_id)>>,
       <<"redirect_uri", OrEmpty(service.redirect_uri)>>,
       <<"scope", scope>>,
       <<"response_type", "code">>,
       <<"access_type", "offline">>,
       <<"prompt", "select_account">>,
       <<"include_granted_scopes", "true">> >>
    \o (IF Truthy(state) THEN << <<"state", OrEmpty(state)>> >> ELSE <<>>)

\* [... for k, v in params.items() if v]
WithValue(param) == param[2] # ""

\* "&".join([f"{k}={v}" ...]) as the pieces it concatenates
RECURSIVE JoinParams(_)
JoinParams(params) ==
    IF Len(params) = 0 THEN <<>>
    ELSE <<Head(params)[1], "=", Head(params)[2]>>
         \o (IF Len(params) = 1 THEN <<>> ELSE <<"&">>)
         \o JoinParams(Tail(params))

OAuthRaised(status_code) ==
    [raised |-> "HTTPException", status_code |-> status_code, url |-> <<>>]

\* get_oauth_url without the check of client_id
get_oauth_url_unchecked(service, state) ==
    [raised |-> "", status_code |-> 0,
     url |-> <<base_url, "?">> \o JoinParams(SelectSeq(OAuthParams(service, state), WithValue))]

\* GoogleAnalyticsService.get_oauth_url(state)
get_oauth_url(service, state) ==
    IF ~Truthy(service.client_id)
    THEN OAuthRaised(400)
    ELSE [raised |-> "", status_code |-> 0,
          url |-> <<base_url, "?">>
                  \o JoinParams(SelectSeq(OAuthParams(service, state), WithValue))]

\* os.getenv(name, default)
GetEnv(name, default) == IF environ[name] = None THEN default ELSE environ[name]

\* the configuration the endpoint writes into the singleton on every request
ServiceFromEnvironment ==
    [client_id |-> GetEnv("GOOGLE_CLIENT_ID", None),
     client_secret |-> GetEnv("GOOGLE_CLIENT_SECRET", None),
     redirect_uri |-> Some(OrEmpty(GetEnv("REPLIT_DOMAINS", Some("http://localhost:5000")))
                           \o "/api/auth/google/callback")]

SetupRequired ==
    [error |-> "Google OAuth not configured", setup_required |-> TRUE,
     instructions |-> "Add GOOGLE_CLIENT_ID and GOOGLE_CLIENT_SECRET to your Replit secrets"]

\* the body of get_google_oauth_url: the answer for a given query parameter state
get_google_oauth_url(state) ==
    IF ~Truthy(ServiceFromEnvironment.client_id)
    THEN [status |-> 200, body |-> SetupRequired]
    ELSE LET r == get_oauth_url(ServiceFromEnvironment, state)
         IN  IF r.raised # ""
             THEN [status |-> 500, body |-> [detail |-> r.raised]]
             ELSE [status |-> 200, body |-> [oauth_url |-> r.url]]

\* values of the environment variables and of the state argument
ClientIds == {None, Some(""), Some("1234.apps.googleusercontent.com")}
ClientSecrets == {None, Some("s3cret")}
Domains == {None, Some(""), Some("https://app.replit.dev")}
States == {None, Some(""), Some("xyz"), Some("a&prompt=none")}

Environments ==
    [GOOGLE_CLIENT_ID : ClientIds, GOOGLE_CLIENT_SECRET : ClientSecrets,
     REPLIT_DOMAINS : Domains]

\* the process started in some environment
InitOAuth ==
    /\ Constructed
    /\ environ \in Environments

\* a caller holding the singleton asks it for the URL
CallGetOAuthUrl ==
    /\ \E state \in States :
          LET r == get_oauth_url(ga_service, state)
          IN  oauth' = [NoOAuthCall EXCEPT !.op = "get_oauth_url", !.state = state,
                                           !.service = ga_service, !.raised = r.raised,
                                           !.status_code = r.status_code, !.url = r.url]
    /\ UNCHANGED <<storeVars, reqs, report, environ, ga_service>>

\* @app.get("/api/auth/google/url")
HandleGoogleOAuthUrl ==
    /\ \E state \in States :
          oauth' = [NoOAuthCall EXCEPT !.op = "GET /api/auth/google/url", !.state = state,
                                       !.service = ServiceFromEnvironment,
                                       !.response = get_google_oauth_url(state)]
    /\ ga_service' = ServiceFromEnvironment
    /\ UNCHANGED <<storeVars, reqs, report, environ>>

NextOAuth == CallGetOAuthUrl \/ HandleGoogleOAuthUrl

SpecOAuth == InitOAuth /\ [][NextOAuth]_vars

\* the URL has the query parameter key=value / has a parameter named key
HasParam(url, key, value) ==
    \E i \in 3..(Len(url) - 2) :
        /\ url[i - 1] \in {"?", "&"}
        /\ url[i] = key
        /\ url[i + 1] = "="
        /\ url[i + 2] = value

HasKey(url, key) ==
    \E i \in 3..(Len(url) - 2) :
        url[i - 1] \in {"?", "&"} /\ url[i] = key /\ url[i + 1] = "="

\* a client identifier is configured: it is neither absent nor empty
Configured(client_id) == client_id # None /\ client_id # Some("")

\* a non-empty state was supplied
StateSupplied(state) == state # None /\ state # Some("")

\* C13: get_oauth_url fails with a configuration error (HTTPException, 400) whenever
\* no client identifier is configured; otherwise it returns a URL that contains
\* access_type=offline and prompt=select_account and contains the state parameter
\* exactly when a non-empty state was supplied. GET /api/auth/google/url answers a
\* missing client identifier with the setup-required notice, not an error response.
C13_AuthorizationUrl ==
    /\ oauth.op = "get_oauth_url" =>
          IF ~Configured(oauth.service.client_id)
          THEN oauth.raised = "HTTPException" /\ oauth.status_code = 400 /\ oauth.url = <<>>
          ELSE /\ oauth.raised = ""
               /\ oauth.url[1] = base_url
               /\ HasParam(oauth.url, "access_type", "offline")
               /\ HasParam(oauth.url, "prompt", "select_account")
               /\ HasKey(oauth.url, "state") <=> StateSupplied(oauth.state)
               /\ \A v \in oauth.state : v # "" => HasParam(oauth.url, "state", v)
    /\ oauth.op = "GET /api/auth/google/url" =>
          IF ~Configured(oauth.service.client_id)
          THEN /\ oauth.response.status = 200
               /\ DOMAIN oauth.response.body = {"error", "setup_required", "instructions"}
               /\ oauth.response.body.setup_required
          ELSE /\ oauth.response.status = 200
               /\ DOMAIN oauth.response.body = {"oauth_url"}
               /\ HasKey(oauth.response.body.oauth_url, "state") <=> StateSupplied(oauth.state)

\* the singleton, configured by an earlier request of the endpoint, is asked directly
\* for the URL with state "xyz" and returns one that carries it
C13_Witness ==
    /\ oauth.op = "get_oauth_url"
    /\ Configured(oauth.service.client_id)
    /\ oauth.state = Some("xyz")
    /\ oauth.raised = ""
    /\ HasParam(oauth.url, "state", "xyz")

\* C14: in every state reachable from the seeded store by create_integration,
\* update_integration and delete_integration calls, every stored integration whose
\* status is "connected" has a last_sync that is not None.
C14_ConnectedHasLastSync ==
    \A i \in 1..Len(integrations) :
        integrations[i].status = "connected" => integrations[i].last_sync # None

====
